---- MODULE Spec2Model ----
(***************************************************************************)
(* The height-versioned storage of the ledger node (shell/storage/db.rs):  *)
(* the key comparator, the block writer, the versioned reader and the      *)
(* recovery of the last block.                                             *)
(*                                                                         *)
(* A string is the sequence of its bytes; a key is a string.  The store is *)
(* the engine's ordered map under key_comparator: a function from keys to  *)
(* values.  Keys hold ASCII only (key_comparator unwraps from_utf8).       *)
(***************************************************************************)
EXTENDS Integers, Sequences, FiniteSets, TLC

VARIABLES
    db,        \* the durable store: key -> value bytes
    pc,        \* where the writer stands: "idle", or "committed" inside write_block
    wh,        \* the height of the write_block in progress (NoHeight when idle)
    nWrites,   \* write_block calls started so far
    last,      \* history: per height, the arguments of the last committed batch,
               \* whether its call returned Ok, and the entries left at the
               \* height by batches whose pointer write did not happen
    written,   \* history: per height, (address, column) -> last value of a committed batch
    prev,      \* history: pointer and recovery result when the running write_block began
    res,       \* the outcome of the call that returns, NoRes once the caller has it
    edits,     \* SpecScan: keys injected or deleted so far
    ka, kb,    \* SpecCmp: the two keys handed to key_comparator
    cmpOut,    \* SpecCmp: the comparator's answers
    chIn,      \* SpecChan: what validate_channel is called on
    chOut      \* SpecChan: what validate_channel returned

vars == <<db, pc, wh, nWrites, last, written, prev, res, edits, ka, kb, cmpOut, chIn, chOut>>

(***************************************************************************)
(* Bounds                                                                  *)
(***************************************************************************)
MaxHeight == 2
MaxWrites == 2
MaxEdits == 2
MaxCmpHeight == 11

(***************************************************************************)
(* Bytes and strings                                                       *)
(***************************************************************************)
Slash == 47
Plus == 43
Digit0 == 48

s_tree == <<116, 114, 101, 101>>
s_root == <<114, 111, 111, 116>>
s_store == <<115, 116, 111, 114, 101>>
s_hash == <<104, 97, 115, 104>>
s_subspace == <<115, 117, 98, 115, 112, 97, 99, 101>>
s_height == <<104, 101, 105, 103, 104, 116>>
s_chain_id == <<99, 104, 97, 105, 110, 95, 105, 100>>

Min(a, b) == IF a <= b THEN a ELSE b

Least(S) == CHOOSE i \in S : \A j \in S : i <= j

\* str::cmp: byte-wise lexicographic order
StrCmp(a, b) ==
    LET d == {i \in 1..Min(Len(a), Len(b)) : a[i] # b[i]}
    IN  IF d = {}
        THEN IF Len(a) < Len(b) THEN "Less"
             ELSE IF Len(a) > Len(b) THEN "Greater" ELSE "Equal"
        ELSE IF a[Least(d)] < b[Least(d)] THEN "Less" ELSE "Greater"

\* <[&str] as Ord>::cmp: lexicographic over the segments, each by str::cmp
SegsCmp(x, y) ==
    LET d == {i \in 1..Min(Len(x), Len(y)) : x[i] # y[i]}
    IN  IF d = {}
        THEN IF Len(x) < Len(y) THEN "Less"
             ELSE IF Len(x) > Len(y) THEN "Greater" ELSE "Equal"
        ELSE StrCmp(x[Least(d)], y[Least(d)])

\* u64::cmp
NumCmp(m, n) == IF m < n THEN "Less" ELSE IF m > n THEN "Greater" ELSE "Equal"

\* str::split('/'): at least one segment, empty segments kept
RECURSIVE Split(_)
Split(s) ==
    LET sl == {i \in 1..Len(s) : s[i] = Slash}
    IN  IF sl = {} THEN <<s>>
        ELSE <<SubSeq(s, 1, Least(sl) - 1)>> \o Split(SubSeq(s, Least(sl) + 1, Len(s)))

\* The first of the segments taken for the whole column name.
Join_first(segs) == IF Len(segs) = 0 THEN <<>> ELSE segs[1]

\* [&str]::join("/")
RECURSIVE Join(_)
Join(segs) ==
    IF Len(segs) = 0 THEN <<>>
    ELSE IF Len(segs) = 1 THEN segs[1]
    ELSE segs[1] \o <<Slash>> \o Join(Tail(segs))

IsDigit(c) == c >= Digit0 /\ c <= Digit0 + 9

RECURSIVE DigitsVal(_)
DigitsVal(s) ==
    IF Len(s) = 0 THEN 0
    ELSE 10 * DigitsVal(SubSeq(s, 1, Len(s) - 1)) + (s[Len(s)] - Digit0)

\* str::parse::<u64>: an optional '+', then one or more decimal digits (leading
\* zeros allowed).  The overflow arm needs 20 digits; no string here has them.
ParseU64(s) ==
    LET body == IF Len(s) > 0 /\ s[1] = Plus THEN Tail(s) ELSE s
    IN  IF Len(body) > 0 /\ \A i \in 1..Len(body) : IsDigit(body[i])
        THEN [ok |-> TRUE, val |-> DigitsVal(body)]
        ELSE [ok |-> FALSE, val |-> 0]

\* The comparator with the numeric comparison of the heights lost: the
\* engine's default byte order.
key_comparator_bytewise(a, b) == StrCmp(a, b)

key_comparator(a, b) ==
    LET a_vec == Split(a)
        b_vec == Split(b)
        result_a_h == ParseU64(a_vec[1])
        result_b_h == ParseU64(b_vec[1])
    IN  IF ~result_a_h.ok \/ ~result_b_h.ok
        THEN StrCmp(a, b)
        ELSE IF result_a_h.val = result_b_h.val
             THEN SegsCmp(Tail(a_vec), Tail(b_vec))
             ELSE NumCmp(result_a_h.val, result_b_h.val)

(***************************************************************************)
(* Key codec (shell/storage/types.rs is not among the sources: the codec   *)
(* follows the specification's sections 3, 4.1 and 6)                      *)
(***************************************************************************)
NoHeight == -1

\* BlockHeight::to_key_seg: the canonical decimal encoding
RECURSIVE HeightToKeySeg(_)
HeightToKeySeg(h) ==
    IF h < 10 THEN <<Digit0 + h>>
    ELSE HeightToKeySeg(h \div 10) \o <<Digit0 + (h % 10)>>

\* BlockHeight::encode / decode: the value stored under `height`, the
\* height's low bytes first
HeightEncode(h) == <<h % 256, h \div 256>>
HeightDecode(bytes) == bytes[1] + 256 * bytes[2]

\* BlockHeight::prev_height / next_height
PrevHeight(h) == IF h > 0 THEN h - 1 ELSE NoHeight
NextHeight(h) == h + 1

\* Value::encode / decode of a root, a store, a hash or a chain id: typed
\* value <-> bytes
EncodeValue(v) == <<v>>
DecodeValue(bytes) == bytes[1]

\* Address::to_key_seg / from_key_seg: an address is a non-empty string of
\* lower-case letters, its key segment is the string itself
IsAddressSeg(seg) == Len(seg) > 0 /\ \A i \in 1..Len(seg) : seg[i] >= 97 /\ seg[i] <= 122
AddressToKeySeg(addr) == addr
AddressFromKeySeg(seg) ==
    IF IsAddressSeg(seg) THEN [ok |-> TRUE, addr |-> seg] ELSE [ok |-> FALSE, addr |-> <<>>]

(***************************************************************************)
(* The engine: an ordered map under key_comparator.  Two keys the          *)
(* comparator calls Equal are one key to it.  A batch is applied whole     *)
(* or not at all, and a sync write that returned is durable.               *)
(***************************************************************************)
None == [some |-> FALSE, v |-> <<>>]
Some(v) == [some |-> TRUE, v |-> v]

EmptyStore == [k \in {} |-> <<>>]

\* rocksdb::DB::get
EngineGet(store, k) ==
    LET m == {x \in DOMAIN store : key_comparator(x, k) = "Equal"}
    IN  IF k \in DOMAIN store THEN Some(store[k])
        ELSE IF m = {} THEN None ELSE Some(store[CHOOSE x \in m : TRUE])

\* rocksdb::DB::put_opt
EnginePut(store, k, v) ==
    LET keep == {x \in DOMAIN store : key_comparator(x, k) # "Equal"}
    IN  [x \in keep \cup {k} |-> IF x = k THEN v ELSE store[x]]

\* rocksdb::DB::write_opt of a WriteBatch: the puts of the batch, all of them
RECURSIVE EngineWrite(_, _)
EngineWrite(store, batch) ==
    IF batch = {} THEN store
    ELSE LET p == CHOOSE q \in batch : TRUE
         IN  EngineWrite(EnginePut(store, p[1], p[2]), batch \ {p})

RECURSIVE SortKeys(_)
SortKeys(S) ==
    IF S = {} THEN <<>>
    ELSE LET m == CHOOSE k \in S : \A o \in S \ {k} : key_comparator(k, o) = "Less"
         IN  <<m>> \o SortKeys(S \ {m})

\* rocksdb::DB::iterator_opt, IteratorMode::From(from, Forward) with
\* iterate_upper_bound: the keys in [from, upper) in the comparator's order
EngineIterator(store, from, upper) ==
    SortKeys({k \in DOMAIN store : /\ key_comparator(k, from) # "Less"
                                   /\ key_comparator(k, upper) = "Less"})

(***************************************************************************)
(* Keys of the schema                                                      *)
(***************************************************************************)
Cat(a, b) == a \o <<Slash>> \o b

RootKey(h) == Cat(Cat(HeightToKeySeg(h), s_tree), s_root)
StoreKey(h) == Cat(Cat(HeightToKeySeg(h), s_tree), s_store)
HashKey(h) == Cat(HeightToKeySeg(h), s_hash)
SubspaceKey(h, addr, column) ==
    Cat(Cat(Cat(HeightToKeySeg(h), s_subspace), AddressToKeySeg(addr)), column)

\* A subspaces argument is a function address -> (column -> value bytes);
\* its entries are the (address, column) pairs it holds.
Entries(subspaces) ==
    UNION {{<<a, c>> : c \in DOMAIN subspaces[a]} : a \in DOMAIN subspaces}

(***************************************************************************)
(* write_block: the batch, then the pointer                                *)
(***************************************************************************)
\* The batch without the block hash.
WriteBlockBatch_no_hash(tree, hash, height, subspaces) ==
    {<<RootKey(height), EncodeValue(tree.root)>>,
     <<StoreKey(height), EncodeValue(tree.store)>>}
    \cup {<<SubspaceKey(height, e[1], e[2]), subspaces[e[1]][e[2]]>> : e \in Entries(subspaces)}

\* The batch without the subspace entries.
WriteBlockBatch_no_subspaces(tree, hash, height, subspaces) ==
    {<<RootKey(height), EncodeValue(tree.root)>>,
     <<StoreKey(height), EncodeValue(tree.store)>>,
     <<HashKey(height), EncodeValue(hash)>>}

\* The batch that writes the subspace entries under the height before as
\* well.
WriteBlockBatch_copies_down(tree, hash, height, subspaces) ==
    {<<RootKey(height), EncodeValue(tree.root)>>,
     <<StoreKey(height), EncodeValue(tree.store)>>,
     <<HashKey(height), EncodeValue(hash)>>}
    \cup {<<SubspaceKey(height, e[1], e[2]), subspaces[e[1]][e[2]]>> : e \in Entries(subspaces)}
    \cup {<<SubspaceKey(IF height > 0 THEN height - 1 ELSE height, e[1], e[2]),
            subspaces[e[1]][e[2]]>> : e \in Entries(subspaces)}

\* The puts collected in the WriteBatch
WriteBlockBatch(tree, hash, height, subspaces) ==
    {<<RootKey(height), EncodeValue(tree.root)>>,
     <<StoreKey(height), EncodeValue(tree.store)>>,
     <<HashKey(height), EncodeValue(hash)>>}
    \cup {<<SubspaceKey(height, e[1], e[2]), subspaces[e[1]][e[2]]>> : e \in Entries(subspaces)}

(***************************************************************************)
(* read                                                                    *)
(***************************************************************************)
\* what read returns, beside the heights it looked up, in the order of the
\* lookups
ReadResult(tag, kind, v, height) == [tag |-> tag, kind |-> kind, v |-> v, probes |-> <<height>>]

\* read without the walk down the heights: the exact height only.
ReadFrom_no_fallback(store, height, addr, column, failAt) ==
    IF height = failAt THEN ReadResult("Err", "RocksDBError", <<>>, height)
    ELSE LET got == EngineGet(store, SubspaceKey(height, addr, column))
         IN  IF got.some THEN ReadResult("Some", "", got.v, height)
             ELSE ReadResult("None", "", <<>>, height)

\* read that takes a failed lookup for an absent key and walks on.
RECURSIVE ReadFrom_error_as_absent(_, _, _, _, _)
ReadFrom_error_as_absent(store, height, addr, column, failAt) ==
    LET got == IF height = failAt THEN None
               ELSE EngineGet(store, SubspaceKey(height, addr, column))
    IN  IF got.some THEN ReadResult("Some", "", got.v, height)
        ELSE IF PrevHeight(height) # NoHeight
             THEN LET below == ReadFrom_error_as_absent(store, PrevHeight(height), addr,
                                                        column, failAt)
                  IN  [below EXCEPT !.probes = <<height>> \o @]
             ELSE ReadResult("None", "", <<>>, height)

\* The outcome of read: the bytes, or None.  `failAt` is the height whose
\* lookup the engine fails (NoHeight: none fails).
RECURSIVE ReadFrom(_, _, _, _, _)
ReadFrom(store, height, addr, column, failAt) ==
    IF height = failAt THEN ReadResult("Err", "RocksDBError", <<>>, height)
    ELSE LET got == EngineGet(store, SubspaceKey(height, addr, column))
         IN  IF got.some THEN ReadResult("Some", "", got.v, height)
             ELSE IF PrevHeight(height) # NoHeight
                  THEN LET below == ReadFrom(store, PrevHeight(height), addr, column, failAt)
                       IN  [below EXCEPT !.probes = <<height>> \o @]
                  ELSE ReadResult("None", "", <<>>, height)

(***************************************************************************)
(* read_last_block                                                         *)
(***************************************************************************)
Ok == [tag |-> "ok", kind |-> "", key |-> <<>>]
Err(kind, key) == [tag |-> "Err", kind |-> kind, key |-> key]

\* An unknown key logged and passed over.
unknown_key_error_ignored(path) == Ok

\* unknown_key_error
unknown_key_error(path) == Err("UnknownKey", path)

EmptySubspaces == [a \in {} |-> <<>>]

ScanStart == [root |-> None, store |-> None, hash |-> None,
              subspaces |-> EmptySubspaces, err |-> Ok]

\* subspaces with (addr, column) -> bytes inserted, the address's map
\* created when it is not there yet
InsertColumn(subspaces, addr, column, bytes) ==
    LET old == IF addr \in DOMAIN subspaces THEN subspaces[addr] ELSE [c \in {} |-> <<>>]
        new == [c \in DOMAIN old \cup {column} |-> IF c = column THEN bytes ELSE old[c]]
    IN  [a \in DOMAIN subspaces \cup {addr} |-> IF a = addr THEN new ELSE subspaces[a]]

\* The loop's turn that passes over a subspace key whose address does not
\* parse.
ScanKey_skips_bad_address(acc, path, bytes) ==
    LET segments == Split(path)
    IN  IF Len(segments) < 2 THEN [acc EXCEPT !.err = unknown_key_error(path)]
        ELSE IF segments[2] = s_tree
        THEN IF Len(segments) < 3 THEN [acc EXCEPT !.err = unknown_key_error(path)]
             ELSE IF segments[3] = s_root THEN [acc EXCEPT !.root = Some(DecodeValue(bytes))]
             ELSE IF segments[3] = s_store THEN [acc EXCEPT !.store = Some(DecodeValue(bytes))]
             ELSE [acc EXCEPT !.err = unknown_key_error(path)]
        ELSE IF segments[2] = s_hash THEN [acc EXCEPT !.hash = Some(DecodeValue(bytes))]
        ELSE IF segments[2] = s_subspace
        THEN IF Len(segments) < 3 THEN [acc EXCEPT !.err = unknown_key_error(path)]
             ELSE LET addr == AddressFromKeySeg(segments[3])
                      column == Join(SubSeq(segments, 4, Len(segments)))
                  IN  IF ~addr.ok THEN acc
                      ELSE [acc EXCEPT !.subspaces = InsertColumn(@, addr.addr, column, bytes)]
        ELSE [acc EXCEPT !.err = unknown_key_error(path)]

\* One turn of the scan's loop: the key's path classified by its segments
ScanKey(acc, path, bytes) ==
    LET segments == Split(path)
    IN  IF Len(segments) < 2 THEN [acc EXCEPT !.err = unknown_key_error(path)]
        ELSE IF segments[2] = s_tree
        THEN IF Len(segments) < 3 THEN [acc EXCEPT !.err = unknown_key_error(path)]
             ELSE IF segments[3] = s_root THEN [acc EXCEPT !.root = Some(DecodeValue(bytes))]
             ELSE IF segments[3] = s_store THEN [acc EXCEPT !.store = Some(DecodeValue(bytes))]
             ELSE [acc EXCEPT !.err = unknown_key_error(path)]
        ELSE IF segments[2] = s_hash THEN [acc EXCEPT !.hash = Some(DecodeValue(bytes))]
        ELSE IF segments[2] = s_subspace
        THEN IF Len(segments) < 3 THEN [acc EXCEPT !.err = unknown_key_error(path)]
             ELSE LET addr == AddressFromKeySeg(segments[3])
                      column == Join(SubSeq(segments, 4, Len(segments)))
                  IN  IF ~addr.ok THEN [acc EXCEPT !.err = Err("Temporary:address", <<>>)]
                      ELSE [acc EXCEPT !.subspaces = InsertColumn(@, addr.addr, column, bytes)]
        ELSE [acc EXCEPT !.err = unknown_key_error(path)]

\* The loop over the iterator: `?` leaves it at the first error
RECURSIVE ScanFrom(_, _, _, _)
ScanFrom(store, keys, i, acc) ==
    IF i > Len(keys) THEN acc
    ELSE LET next == ScanKey(acc, keys[i], store[keys[i]])
         IN  IF next.err.tag = "Err" THEN next ELSE ScanFrom(store, keys, i + 1, next)

ResultNone == [tag |-> "None"]
ResultErr(e) == [tag |-> "Err", kind |-> e.kind, key |-> e.key]
ResultSome(chain_id, tree, hash, height, subspaces) ==
    [tag |-> "Some", chain_id |-> chain_id, tree |-> tree, hash |-> hash,
     height |-> height, subspaces |-> subspaces]

\* The check after the scan, with `&&` for `||`.
EssentialMissing_all(acc) == ~acc.root.some /\ ~acc.store.some /\ ~acc.hash.some

\* root.is_none() || store.is_none() || hash.is_none()
EssentialMissing(acc) == ~acc.root.some \/ ~acc.store.some \/ ~acc.hash.some

\* The scan without its start key: from the store's first height on.
ScanRange_no_start(store, height) ==
    EngineIterator(store, HeightToKeySeg(0) \o <<Slash>>,
                   HeightToKeySeg(NextHeight(height)) \o <<Slash>>)

\* The scanned range of the height
ScanRange(store, height) ==
    EngineIterator(store, HeightToKeySeg(height) \o <<Slash>>,
                   HeightToKeySeg(NextHeight(height)) \o <<Slash>>)

\* The recovery that goes on to the scan when the pointer is absent, and
\* then misses the essential data.
read_last_block_absent_pointer_fails(store, fail) ==
    IF fail = "chain_id" THEN ResultErr(Err("RocksDBError", <<>>))
    ELSE IF ~EngineGet(store, s_chain_id).some THEN ResultNone
    ELSE IF fail = "height" THEN ResultErr(Err("RocksDBError", <<>>))
    ELSE IF ~EngineGet(store, s_height).some
         THEN ResultErr(Err("Temporary:essential", <<>>))
    ELSE LET chain_id == DecodeValue(EngineGet(store, s_chain_id).v)
             height == HeightDecode(EngineGet(store, s_height).v)
             acc == ScanFrom(store, ScanRange(store, height), 1, ScanStart)
         IN  IF acc.err.tag = "Err" THEN ResultErr(acc.err)
             ELSE IF EssentialMissing(acc)
                  THEN ResultErr(Err("Temporary:essential", <<>>))
                  ELSE ResultSome(chain_id, [root |-> acc.root.v, store |-> acc.store.v],
                                  acc.hash.v, height, acc.subspaces)

\* `fail` names the lookup the engine fails: "none", "chain_id" or "height".
read_last_block(store, fail) ==
    IF fail = "chain_id" THEN ResultErr(Err("RocksDBError", <<>>))
    ELSE IF ~EngineGet(store, s_chain_id).some THEN ResultNone
    ELSE IF fail = "height" THEN ResultErr(Err("RocksDBError", <<>>))
    ELSE IF ~EngineGet(store, s_height).some THEN ResultNone
    ELSE LET chain_id == DecodeValue(EngineGet(store, s_chain_id).v)
             height == HeightDecode(EngineGet(store, s_height).v)
             acc == ScanFrom(store, ScanRange(store, height), 1, ScanStart)
         IN  IF acc.err.tag = "Err" THEN ResultErr(acc.err)
             ELSE IF EssentialMissing(acc)
                  THEN ResultErr(Err("Temporary:essential", <<>>))
                  ELSE ResultSome(chain_id, [root |-> acc.root.v, store |-> acc.store.v],
                                  acc.hash.v, height, acc.subspaces)

(***************************************************************************)
(* The validity predicate of the IBC channel keys (ibc/channel.rs).  A     *)
(* call `c` is what validate_channel meets: the kind of the key, the       *)
(* counters, the port's capability, the channel end after the transaction  *)
(* (`channel`) and before it (`prev`), the state change of the key, what   *)
(* the tx data decodes as, and the counterparty's channel end that the     *)
(* proofs of the tx data prove (`proven`).                                 *)
(***************************************************************************)
NoCall == [key |-> "none"]
NoOut == [tag |-> "none"]

\* no call of verify_channel_proofs was made
NoVerify == [state |-> "none", channel_id |-> "none"]

\* the channel end expected of the counterparty: a state, and this side's
\* port with this side's channel id ("some") or without one ("none")
Expected(state, channel_id) == [state |-> state, channel_id |-> channel_id]

OkBool(v, verified) == [tag |-> "Ok", v |-> v, kind |-> "", verified |-> verified]
ErrKind(kind, verified) == [tag |-> "Err", v |-> FALSE, kind |-> kind, verified |-> verified]

\* verify_proofs: verify_channel_proofs against the expected channel end
verify_proofs(c, my_channel_id, expected_state) ==
    IF c.env = "no_counterparty_connection" THEN ErrKind("ConnectionError", NoVerify)
    ELSE IF c.proven = Expected(expected_state, my_channel_id)
         THEN OkBool(TRUE, Expected(expected_state, my_channel_id))
         ELSE ErrKind("ProofVerificationError", Expected(expected_state, my_channel_id))

\* The try proof verified with this side's channel id in the expected end.
verify_channel_try_proof_with_id(c) ==
    IF c.tx # "ChannelOpenTryData" THEN ErrKind("DecodingTxDataError", NoVerify)
    ELSE IF c.env = "proofs_error" THEN ErrKind("IbcDataError", NoVerify)
    ELSE verify_proofs(c, "some", "Init")

verify_channel_try_proof(c) ==
    IF c.tx # "ChannelOpenTryData" THEN ErrKind("DecodingTxDataError", NoVerify)
    ELSE IF c.env = "proofs_error" THEN ErrKind("IbcDataError", NoVerify)
    ELSE verify_proofs(c, "none", "Init")

verify_channel_ack_proof(c) ==
    IF c.tx # "ChannelOpenAckData" THEN ErrKind("DecodingTxDataError", NoVerify)
    ELSE IF c.env = "proofs_error" THEN ErrKind("IbcDataError", NoVerify)
    ELSE verify_proofs(c, "some", "TryOpen")

verify_channel_confirm_proof(c) ==
    IF c.tx # "ChannelOpenConfirmData" THEN ErrKind("DecodingTxDataError", NoVerify)
    ELSE IF c.env = "proofs_error" THEN ErrKind("IbcDataError", NoVerify)
    ELSE verify_proofs(c, "some", "Open")

verify_channel_close_proof(c) ==
    IF c.tx # "ChannelCloseConfirmData" THEN ErrKind("DecodingTxDataError", NoVerify)
    ELSE IF c.env = "proofs_error" THEN ErrKind("IbcDataError", NoVerify)
    ELSE verify_proofs(c, "some", "Closed")

\* channel_end_pre: the channel end before the transaction, when it is
\* there and decodes
channel_end_pre(c) ==
    IF c.prev \in {"None", "Undecodable"}
    THEN [ok |-> FALSE, state |-> "none"]
    ELSE [ok |-> TRUE, state |-> c.prev]

\* The update that lets a channel be closed from any state.
validate_updated_channel_any_close(c) ==
    LET prev_channel == channel_end_pre(c)
    IN  IF ~prev_channel.ok THEN ErrKind("ChannelError", NoVerify)
        ELSE IF c.channel = "Open"
        THEN IF prev_channel.state = "Init" THEN verify_channel_ack_proof(c)
             ELSE IF prev_channel.state = "TryOpen" THEN verify_channel_confirm_proof(c)
             ELSE ErrKind("StateChangeError", NoVerify)
        ELSE IF c.channel = "Closed"
        THEN IF c.tx = "ChannelCloseInitData" THEN OkBool(TRUE, NoVerify)
             ELSE verify_channel_close_proof(c)
        ELSE ErrKind("StateChangeError", NoVerify)

validate_updated_channel(c) ==
    LET prev_channel == channel_end_pre(c)
    IN  IF ~prev_channel.ok THEN ErrKind("ChannelError", NoVerify)
        ELSE IF c.channel = "Open"
        THEN IF prev_channel.state = "Init" THEN verify_channel_ack_proof(c)
             ELSE IF prev_channel.state = "TryOpen" THEN verify_channel_confirm_proof(c)
             ELSE ErrKind("StateChangeError", NoVerify)
        ELSE IF c.channel = "Closed"
        THEN IF prev_channel.state # "Open" THEN ErrKind("StateChangeError", NoVerify)
             ELSE IF c.tx = "ChannelCloseInitData" THEN OkBool(TRUE, NoVerify)
             ELSE verify_channel_close_proof(c)
        ELSE ErrKind("StateChangeError", NoVerify)

\* channel_counter_pre: the counter before the transaction, or the error of
\* reading it
channel_counter_pre(c) == c.counter_pre

\* The counter after the transaction read one too high.
channel_counter_next(c) == c.counter + 1

\* ChannelReader::channel_counter
channel_counter(c) == c.counter

\* get_channel_state_change: "Created", "Updated", "Deleted", "NotExists",
\* or "Error" when the state change cannot be told
get_channel_state_change(c) == c.change

validate_channel(c) ==
    IF c.key = "channel_counter"
    THEN IF ~channel_counter_pre(c).ok THEN ErrKind("ChannelError", NoVerify)
         ELSE OkBool(channel_counter_pre(c).val < channel_counter(c), NoVerify)
    ELSE IF c.key # "channel_end" THEN ErrKind("KeyError", NoVerify)
    ELSE IF ~c.port_authenticated THEN ErrKind("PortError", NoVerify)
    ELSE IF c.channel \in {"None", "Undecodable"} THEN ErrKind("ChannelError", NoVerify)
    ELSE IF ~c.valid_basic THEN ErrKind("ChannelError", NoVerify)
    ELSE IF ~c.valid_version THEN ErrKind("VersionError", NoVerify)
    ELSE IF get_channel_state_change(c) = "Error" THEN ErrKind("StateChangeError", NoVerify)
    ELSE IF get_channel_state_change(c) = "Created"
         THEN IF c.channel = "Init" THEN OkBool(TRUE, NoVerify)
              ELSE IF c.channel = "TryOpen" THEN verify_channel_try_proof(c)
              ELSE ErrKind("ChannelError", NoVerify)
    ELSE IF get_channel_state_change(c) = "Updated" THEN validate_updated_channel(c)
    ELSE ErrKind("StateChangeError", NoVerify)

(***************************************************************************)
(* The calls the node makes                                                *)
(***************************************************************************)
Heights == 0..MaxHeight

addr_a == <<97>>
addr_b == <<98>>
col_c == <<99>>
col_d_e == <<100, Slash, 101>>

BlockA == [tree |-> [root |-> 1, store |-> 3], hash |-> 5]
BlockB == [tree |-> [root |-> 2, store |-> 4], hash |-> 6]

\* The write_block calls made: tree, hash and subspaces of each
Calls ==
    {[tree |-> BlockA.tree, hash |-> BlockA.hash,
      subspaces |-> [a \in {addr_a} |-> [c \in {col_c} |-> <<1>>]]],
     [tree |-> BlockB.tree, hash |-> BlockB.hash,
      subspaces |-> [a \in {addr_a} |->
                        [c \in {col_c, col_d_e} |-> IF c = col_c THEN <<2>> ELSE <<3>>]]],
     [tree |-> BlockA.tree, hash |-> BlockA.hash,
      subspaces |-> [a \in {addr_b} |-> [c \in {col_c} |-> <<5>>]]]}

ChainIds == {1}

ReadPairs == {<<addr_a, col_c>>, <<addr_a, col_d_e>>}

NoRes == [op |-> "none"]
NoBlock == [tree |-> [root |-> 0, store |-> 0], hash |-> 0, subspaces |-> EmptySubspaces,
            committed |-> FALSE, acked |-> FALSE, stale |-> {}]
NoPrev == [h |-> NoHeight, store |-> EmptyStore, crashed |-> FALSE]

\* what a write_block call returns, beside the store the call began on:
\* `failed` names the write that failed, "none", "batch" or "pointer"
WriteBlockResult(height, failed, out, before) ==
    [op |-> "write_block", height |-> height, failed |-> failed, out |-> out,
     before |-> before]

\* what a write_chain_id call returns, beside the store the call began on
WriteChainIdResult(id, out, before) ==
    [op |-> "write_chain_id", id |-> id, out |-> out, before |-> before]

\* the flat map (address, column) -> bytes of a subspaces argument laid over `old`
Overlay(old, subspaces) ==
    [e \in DOMAIN old \cup Entries(subspaces) |->
        IF e \in Entries(subspaces) THEN subspaces[e[1]][e[2]] ELSE old[e]]

Init ==
    /\ db = EmptyStore
    /\ pc = "idle"
    /\ wh = NoHeight
    /\ nWrites = 0
    /\ last = [h \in Heights |-> NoBlock]
    /\ written = [h \in Heights |-> [e \in {} |-> <<>>]]
    /\ prev = NoPrev
    /\ res = NoRes
    /\ edits = 0
    /\ ka = <<>>
    /\ kb = <<>>
    /\ cmpOut = "none"
    /\ chIn = NoCall
    /\ chOut = NoOut

other == <<edits, ka, kb, cmpOut, chIn, chOut>>

\* write_block with its two writes in the other order: the pointer is put
\* first, the batch is still to come.
WriteBlockCommit_pointer_first(tree, hash, height, subspaces) ==
    /\ pc = "idle"
    /\ res = NoRes
    /\ nWrites < MaxWrites
    /\ db' = EnginePut(db, s_height, HeightEncode(height))
    /\ pc' = "committed"
    /\ wh' = height
    /\ nWrites' = nWrites + 1
    /\ prev' = [h |-> height, store |-> db, crashed |-> FALSE]
    /\ res' = NoRes
    /\ UNCHANGED <<last, written, other>>

\* write_block up to the batch's commit (write_opt returned Ok)
WriteBlockCommit(tree, hash, height, subspaces) ==
    /\ pc = "idle"
    /\ res = NoRes
    /\ nWrites < MaxWrites
    /\ db' = EngineWrite(db, WriteBlockBatch(tree, hash, height, subspaces))
    /\ pc' = "committed"
    /\ wh' = height
    /\ nWrites' = nWrites + 1
    /\ last' = [last EXCEPT ![height] = [tree |-> tree, hash |-> hash,
                                         subspaces |-> subspaces, committed |-> TRUE,
                                         acked |-> FALSE,
                                         stale |-> @.stale \ Entries(subspaces)]]
    /\ written' = [written EXCEPT ![height] = Overlay(@, subspaces)]
    /\ prev' = [h |-> height, store |-> db, crashed |-> FALSE]
    /\ res' = NoRes
    /\ UNCHANGED other

\* write_block that goes on after a failed write_opt and puts the pointer.
WriteBlockBatchFails_pointer_put(height) ==
    /\ pc = "idle"
    /\ res = NoRes
    /\ nWrites < MaxWrites
    /\ db' = EnginePut(db, s_height, HeightEncode(height))
    /\ nWrites' = nWrites + 1
    /\ prev' = NoPrev
    /\ res' = WriteBlockResult(height, "batch", Err("RocksDBError", <<>>), db)
    /\ UNCHANGED <<pc, wh, last, written, other>>

\* write_block whose write_opt fails: `?` returns the engine's error
WriteBlockBatchFails(height) ==
    /\ pc = "idle"
    /\ res = NoRes
    /\ nWrites < MaxWrites
    /\ nWrites' = nWrites + 1
    /\ prev' = NoPrev
    /\ res' = WriteBlockResult(height, "batch", Err("RocksDBError", <<>>), db)
    /\ UNCHANGED <<db, pc, wh, last, written, other>>

\* the rest of write_block: put_opt("height", ...) returns Ok
WriteBlockPointer ==
    /\ pc = "committed"
    /\ db' = EnginePut(db, s_height, HeightEncode(wh))
    /\ pc' = "idle"
    /\ wh' = NoHeight
    /\ last' = [last EXCEPT ![wh].acked = TRUE]
    /\ prev' = NoPrev
    /\ res' = WriteBlockResult(wh, "none", Ok, prev.store)
    /\ UNCHANGED <<nWrites, written, other>>

\* the rest of write_block: put_opt fails and its error is returned
WriteBlockPointerFails ==
    /\ pc = "committed"
    /\ pc' = "idle"
    /\ wh' = NoHeight
    /\ last' = [last EXCEPT ![wh].stale = @ \cup Entries(last[wh].subspaces)]
    /\ prev' = NoPrev
    /\ res' = WriteBlockResult(wh, "pointer", Err("RocksDBError", <<>>), prev.store)
    /\ UNCHANGED <<db, nWrites, written, other>>

\* The process dies between the batch's commit and the pointer's write, and
\* restarts on the store as it is on disk (both writes are sync writes).
Crash ==
    /\ pc = "committed"
    /\ pc' = "idle"
    /\ wh' = NoHeight
    /\ last' = [last EXCEPT ![wh].stale = @ \cup Entries(last[wh].subspaces)]
    /\ prev' = [prev EXCEPT !.crashed = TRUE]
    /\ res' = NoRes
    /\ UNCHANGED <<db, nWrites, written, other>>

\* write_chain_id that puts the pointer back to the first height.
WriteChainId_resets_pointer(id) ==
    /\ pc = "idle"
    /\ res = NoRes
    /\ db' = EnginePut(EnginePut(db, s_chain_id, EncodeValue(id)), s_height, HeightEncode(0))
    /\ prev' = NoPrev
    /\ res' = WriteChainIdResult(id, Ok, db)
    /\ UNCHANGED <<pc, wh, nWrites, last, written, other>>

\* write_chain_id: put_opt("chain_id", ...) returns Ok
WriteChainId(id) ==
    /\ pc = "idle"
    /\ res = NoRes
    /\ db' = EnginePut(db, s_chain_id, EncodeValue(id))
    /\ prev' = NoPrev
    /\ res' = WriteChainIdResult(id, Ok, db)
    /\ UNCHANGED <<pc, wh, nWrites, last, written, other>>

\* write_chain_id whose put_opt fails: the engine's error is returned
WriteChainIdFails(id) ==
    /\ pc = "idle"
    /\ res = NoRes
    /\ prev' = NoPrev
    /\ res' = WriteChainIdResult(id, Err("RocksDBError", <<>>), db)
    /\ UNCHANGED <<db, pc, wh, nWrites, last, written, other>>

\* read that stores the value it found under the height it was asked for.
Read_caches(height, addr, column, failAt) ==
    /\ pc = "idle"
    /\ res = NoRes
    /\ res' = [op |-> "read", height |-> height, addr |-> addr, column |-> column,
               failAt |-> failAt, out |-> ReadFrom(db, height, addr, column, failAt)]
    /\ db' = IF res'.out.tag = "Some"
             THEN EnginePut(db, SubspaceKey(height, addr, column), res'.out.v)
             ELSE db
    /\ UNCHANGED <<pc, wh, nWrites, last, written, prev, other>>

Read(height, addr, column, failAt) ==
    /\ pc = "idle"
    /\ res = NoRes
    /\ res' = [op |-> "read", height |-> height, addr |-> addr, column |-> column,
               failAt |-> failAt, out |-> ReadFrom(db, height, addr, column, failAt)]
    /\ UNCHANGED <<db, pc, wh, nWrites, last, written, prev, other>>

ReadLastBlock(fail) ==
    /\ pc = "idle"
    /\ res = NoRes
    /\ res' = [op |-> "read_last_block", fail |-> fail, out |-> read_last_block(db, fail)]
    /\ UNCHANGED <<db, pc, wh, nWrites, last, written, prev, other>>

\* The call's outcome is handed to the caller, who goes on
Return ==
    /\ res # NoRes
    /\ res' = NoRes
    /\ UNCHANGED <<db, pc, wh, nWrites, last, written, prev, other>>

Next ==
    \/ \E c \in Calls, h \in Heights : WriteBlockCommit(c.tree, c.hash, h, c.subspaces)
    \/ \E h \in Heights : WriteBlockBatchFails(h)
    \/ WriteBlockPointer
    \/ WriteBlockPointerFails
    \/ Crash
    \/ \E id \in ChainIds : WriteChainId(id)
    \/ \E id \in ChainIds : WriteChainIdFails(id)
    \/ \E h \in Heights, e \in ReadPairs :
            \E f \in {NoHeight} \cup 0..h : Read(h, e[1], e[2], f)
    \/ \E f \in {"none", "chain_id", "height"} : ReadLastBlock(f)
    \/ Return

Spec == Init /\ [][Next]_vars

(***************************************************************************)
(* SpecScan: read_last_block over stores that hold more, or less, than     *)
(* write_block puts there: a store written by the node into which keys are *)
(* injected and from which keys are deleted.                               *)
(***************************************************************************)
ScanHeights == {9, 10}

InjectValue == <<7>>

r_aaa == <<97, 97, 97>>
r_zzz == <<122, 122, 122>>
r_leaf == <<108, 101, 97, 102>>
r_x == <<120>>

\* what follows the height in an injected key
InjectRests ==
    {<<>>, r_aaa, r_zzz, s_tree, Cat(s_tree, r_leaf), s_subspace,
     Cat(Cat(s_subspace, <<57>>), col_c), Cat(s_subspace, addr_a),
     Cat(Cat(s_subspace, addr_b), col_d_e), Cat(s_hash, r_x),
     Cat(Cat(s_tree, s_root), r_x)}

InjectKeys ==
    {Cat(HeightToKeySeg(h), r) : h \in ScanHeights, r \in InjectRests}
        \cup {Cat(<<Digit0>> \o HeightToKeySeg(9), r_zzz)}

\* the store after write_chain_id and one write_block at height h
BaseStore(h) ==
    EnginePut(
        EngineWrite(EnginePut(EmptyStore, s_chain_id, EncodeValue(1)),
                    WriteBlockBatch(BlockA.tree, BlockA.hash, h,
                                    [a \in {addr_a} |-> [c \in {col_c} |-> <<1>>]])),
        s_height, HeightEncode(h))

InitScan ==
    /\ db \in {BaseStore(h) : h \in ScanHeights}
    /\ pc = "idle"
    /\ wh = NoHeight
    /\ nWrites = 0
    /\ last = [h \in Heights |-> NoBlock]
    /\ written = [h \in Heights |-> [e \in {} |-> <<>>]]
    /\ prev = NoPrev
    /\ res = NoRes
    /\ edits = 0
    /\ ka = <<>>
    /\ kb = <<>>
    /\ cmpOut = "none"
    /\ chIn = NoCall
    /\ chOut = NoOut

InjectKey(k, v) ==
    /\ res = NoRes
    /\ edits < MaxEdits
    /\ db' = EnginePut(db, k, v)
    /\ edits' = edits + 1
    /\ UNCHANGED <<pc, wh, nWrites, last, written, prev, res, ka, kb, cmpOut, chIn, chOut>>

DeleteKey(k) ==
    /\ res = NoRes
    /\ edits < MaxEdits
    /\ k \in DOMAIN db
    /\ db' = [x \in DOMAIN db \ {k} |-> db[x]]
    /\ edits' = edits + 1
    /\ UNCHANGED <<pc, wh, nWrites, last, written, prev, res, ka, kb, cmpOut, chIn, chOut>>

NextScan ==
    \/ \E k \in InjectKeys : InjectKey(k, InjectValue)
    \/ \E h \in ScanHeights : InjectKey(s_height, HeightEncode(h))
    \/ \E k \in DOMAIN db : DeleteKey(k)
    \/ \E f \in {"none", "chain_id", "height"} : ReadLastBlock(f)
    \/ Return

SpecScan == InitScan /\ [][NextScan]_vars

(***************************************************************************)
(* SpecCol: write_block with column names of several segments, and the     *)
(* recovery of what it wrote                                               *)
(***************************************************************************)
col_d == <<100>>
col_d_slash == <<100, Slash>>
col_d_e_f == <<100, Slash, 101, Slash, 102>>
col_empty == <<>>

ColColumns == {col_c, col_d, col_d_e, col_d_e_f, col_d_slash, col_empty}

\* the value written for a column tells the address and the column
ColValue(addr, column) == Cat(addr, column)

\* the subspaces arguments: one or two columns of address a, or one column
\* of both addresses
ColCalls ==
    {[x \in {addr_a} |-> [c \in {c1, c2} |-> ColValue(x, c)]] : c1 \in ColColumns, c2 \in ColColumns}
        \cup {[x \in {addr_a, addr_b} |-> [c \in {c1} |-> ColValue(x, c)]] : c1 \in ColColumns}

InitCol ==
    /\ db = EnginePut(EmptyStore, s_chain_id, EncodeValue(1))
    /\ pc = "idle"
    /\ wh = NoHeight
    /\ nWrites = 0
    /\ last = [h \in Heights |-> NoBlock]
    /\ written = [h \in Heights |-> [e \in {} |-> <<>>]]
    /\ prev = NoPrev
    /\ res = NoRes
    /\ edits = 0
    /\ ka = <<>>
    /\ kb = <<>>
    /\ cmpOut = "none"
    /\ chIn = NoCall
    /\ chOut = NoOut

NextCol ==
    \/ \E c \in ColCalls : WriteBlockCommit(BlockA.tree, BlockA.hash, MaxHeight, c)
    \/ WriteBlockPointer
    \/ ReadLastBlock("none")
    \/ Return

SpecCol == InitCol /\ [][NextCol]_vars

(***************************************************************************)
(* SpecCmp: key_comparator on pairs of keys                                *)
(***************************************************************************)
CmpFirsts ==
    {HeightToKeySeg(h) : h \in 0..MaxCmpHeight}
        \cup {<<Digit0, Digit0 + 7>>, <<Plus, Digit0 + 7>>, <<Digit0 + 5, 97>>,
              s_chain_id, s_height, <<>>}

CmpRests ==
    {<<>>, s_hash, Cat(s_tree, s_root), Cat(s_tree, s_store),
     Cat(Cat(s_subspace, addr_a), col_c), r_zzz}

CmpKeys == CmpFirsts \cup {Cat(f, r) : f \in CmpFirsts, r \in CmpRests}

InitCmp ==
    /\ db = EmptyStore
    /\ pc = "idle"
    /\ wh = NoHeight
    /\ nWrites = 0
    /\ last = [h \in Heights |-> NoBlock]
    /\ written = [h \in Heights |-> [e \in {} |-> <<>>]]
    /\ prev = NoPrev
    /\ res = NoRes
    /\ edits = 0
    /\ ka \in CmpKeys
    /\ kb \in CmpKeys
    /\ cmpOut = "none"
    /\ chIn = NoCall
    /\ chOut = NoOut

Compare ==
    /\ cmpOut = "none"
    /\ cmpOut' = key_comparator(ka, kb)
    /\ UNCHANGED <<db, pc, wh, nWrites, last, written, prev, res, edits, ka, kb, chIn, chOut>>

NextCmp == Compare

SpecCmp == InitCmp /\ [][NextCmp]_vars

(***************************************************************************)
(* Properties of key_comparator (SpecCmp)                                  *)
(***************************************************************************)
key_9_hash == Cat(HeightToKeySeg(9), s_hash)
key_10_hash == Cat(HeightToKeySeg(10), s_hash)

\* key k is prefixed by height h: h's key segment, a '/', and the rest
HeightPrefixed(k, h) ==
    /\ Len(k) > Len(HeightToKeySeg(h))
    /\ SubSeq(k, 1, Len(HeightToKeySeg(h)) + 1) = HeightToKeySeg(h) \o <<Slash>>

RestAfter(k, h) == SubSeq(k, Len(HeightToKeySeg(h)) + 2, Len(k))

Reverse(o) == IF o = "Less" THEN "Greater" ELSE IF o = "Greater" THEN "Less" ELSE o

\* C6: a key prefixed by height h1 compares Less than a key prefixed by a
\* numerically greater height h2, whatever the digit counts, and two keys
\* prefixed by the same height compare as the segment sequences of their
\* rests do.
C6_Ordering ==
    cmpOut # "none" =>
        \A h1, h2 \in 0..MaxCmpHeight :
            (HeightPrefixed(ka, h1) /\ HeightPrefixed(kb, h2)) =>
                /\ h1 < h2 => cmpOut = "Less"
                /\ h1 > h2 => cmpOut = "Greater"
                /\ h1 = h2 => cmpOut = SegsCmp(Split(RestAfter(ka, h1)),
                                               Split(RestAfter(kb, h2)))

C6_Witness == cmpOut = "Less" /\ ka = key_9_hash /\ kb = key_10_hash

\* C7 as claimed: key_comparator is a strict total order over all keys: the
\* answer for (b, a) is the reverse of the answer for (a, b), Equal is
\* answered for identical keys only, and Less is transitive.
C7_StrictTotalOrder ==
    cmpOut # "none" =>
        /\ key_comparator(kb, ka) = Reverse(cmpOut)
        /\ cmpOut = "Equal" => ka = kb
        /\ \A kc \in CmpKeys :
              (cmpOut = "Less" /\ key_comparator(kb, kc) = "Less")
                  => key_comparator(ka, kc) = "Less"

\* the parts of C7, to see which of them the comparator breaks
C7_EqualOnlyIdentical == cmpOut = "Equal" => ka = kb
C7_Transitive ==
    cmpOut = "Less" =>
        \A kc \in CmpKeys :
            key_comparator(kb, kc) = "Less" => key_comparator(ka, kc) = "Less"
C7_Antisymmetric == cmpOut # "none" => key_comparator(kb, ka) = Reverse(cmpOut)

(***************************************************************************)
(* Properties of the write path and of read (Spec)                         *)
(***************************************************************************)
Pointer(store) == EngineGet(store, s_height)
PointerHeight(store) ==
    IF Pointer(store).some THEN HeightDecode(Pointer(store).v) ELSE NoHeight

BlockKeys(h) == {RootKey(h), StoreKey(h), HashKey(h)}

Flatten(subspaces) == [e \in Entries(subspaces) |-> subspaces[e[1]][e[2]]]

IsRecovery == res.op = "read_last_block" /\ res.fail = "none"

\* C1: in every reachable state, the states inside write_block and after a
\* crash or an engine failure included, a present `height` pointer holding h
\* means h/tree/root, h/tree/store and h/hash are all in the store.
C1_PointerRefersToWrittenBlock ==
    Pointer(db).some => BlockKeys(PointerHeight(db)) \subseteq DOMAIN db

C1_Witness == prev.crashed /\ Pointer(db).some /\ prev.h # PointerHeight(db)

C3_CommitAtomicity ==
    IsRecovery =>
        \A h \in Heights :
            last[h].committed =>
                IF res.out.tag = "Some" /\ res.out.height = h
                THEN /\ res.out.tree = last[h].tree
                     /\ res.out.hash = last[h].hash
                     /\ \A e \in Entries(last[h].subspaces) :
                          /\ e \in Entries(res.out.subspaces)
                          /\ res.out.subspaces[e[1]][e[2]] = last[h].subspaces[e[1]][e[2]]
                ELSE PointerHeight(db) # h \/ ~EngineGet(db, s_chain_id).some

C3_Witness ==
    /\ IsRecovery
    /\ prev.crashed
    /\ res.out.tag = "Some"
    /\ res.out.height = prev.h
    /\ Entries(last[prev.h].subspaces) # {}

\* C4: once a chain id is written and the pointer is at H, read_last_block
\* returns H, the tree of the last root and store written for H, the last
\* hash written for H, and as subspaces exactly the writes made at height H
\* (the last value of each), none of another height.
C4_RoundTripRecovery ==
    (IsRecovery /\ EngineGet(db, s_chain_id).some /\ Pointer(db).some) =>
        /\ res.out.tag = "Some"
        /\ res.out.chain_id \in ChainIds
        /\ res.out.height = PointerHeight(db)
        /\ res.out.tree = last[PointerHeight(db)].tree
        /\ res.out.hash = last[PointerHeight(db)].hash
        /\ Flatten(res.out.subspaces) = written[PointerHeight(db)]

C4_Witness ==
    /\ IsRecovery
    /\ res.out.tag = "Some"
    /\ res.out.height > 0
    /\ written[res.out.height] # written[0]
    /\ DOMAIN written[0] # {}
    /\ DOMAIN written[res.out.height] # {}

\* the heights at or below h at which (addr, column) was written
WrittenAt(h, addr, column) == {x \in 0..h : <<addr, column>> \in DOMAIN written[x]}

Greatest(S) == CHOOSE i \in S : \A j \in S : i >= j

\* C5: read(h, a, c), the engine answering, returns the value written for
\* (a, c) at the greatest height h' <= h at which it was written, and None
\* when no height <= h wrote it.
C5_HistoricalFallback ==
    (res.op = "read" /\ res.failAt = NoHeight) =>
        LET ws == WrittenAt(res.height, res.addr, res.column)
        IN  IF ws = {} THEN res.out.tag = "None"
            ELSE /\ res.out.tag = "Some"
                 /\ res.out.v = written[Greatest(ws)][<<res.addr, res.column>>]

\* written at heights 0 and 2 only, with different values, and read at 1
C5_Witness ==
    /\ res.op = "read"
    /\ res.failAt = NoHeight
    /\ res.height = 1
    /\ WrittenAt(2, res.addr, res.column) = {0, 2}
    /\ written[0][<<res.addr, res.column>>] # written[2][<<res.addr, res.column>>]
    /\ res.out.tag = "Some"
    /\ res.out.v = written[0][<<res.addr, res.column>>]

\* C11: a write_block whose batch write fails returns the engine's error
\* without reaching the pointer's write, the store and with it the pointer
\* as they were; a write_block whose batch is committed and whose pointer
\* write fails returns the engine's error, the pointer as it was before the
\* call.
C11_WriteBlockFailures ==
    res.op = "write_block" =>
        /\ res.failed = "batch" =>
              /\ res.out = Err("RocksDBError", <<>>)
              /\ pc = "idle"
              /\ db = res.before
        /\ res.failed = "pointer" =>
              /\ res.out = Err("RocksDBError", <<>>)
              /\ pc = "idle"
              /\ Pointer(db) = Pointer(res.before)
              /\ BlockKeys(res.height) \subseteq DOMAIN db

\* the pointer write fails for a height other than the pointer's
C11_Witness ==
    /\ res.op = "write_block"
    /\ res.failed = "pointer"
    /\ Pointer(db).some
    /\ PointerHeight(db) # res.height
    /\ BlockKeys(res.height) \subseteq DOMAIN db

\* C12: in every reachable state, the states inside write_block and after a
\* crash or a failure included, each height has h/tree/root, h/tree/store
\* and h/hash all three in the store, or none of them.
C12_BlockKeysAllOrNone ==
    \A h \in Heights :
        \/ BlockKeys(h) \subseteq DOMAIN db
        \/ BlockKeys(h) \cap DOMAIN db = {}

\* after a crash inside write_block: one height with the three, one without
C12_Witness ==
    /\ prev.crashed
    /\ BlockKeys(prev.h) \subseteq DOMAIN db
    /\ \E h \in Heights : BlockKeys(h) \cap DOMAIN db = {}
    /\ \E h \in Heights : h # prev.h /\ BlockKeys(h) \subseteq DOMAIN db

\* C13 as claimed: a write_block that returns Ok on a store whose pointer
\* is present leaves the pointer one above what it was: it never decreases,
\* repeats or skips a height.
C13_PointerIncrementsByOne ==
    (res.op = "write_block" /\ res.failed = "none" /\ Pointer(res.before).some) =>
        PointerHeight(db) = PointerHeight(res.before) + 1

\* C14: a read, whatever its arguments and whether it returns a value, None
\* or the engine's error, leaves the store as it is: every key of every
\* height, the `height` pointer and `chain_id`.
C14_ReadIsPure ==
    [][(res'.op = "read" /\ res.op = "none") => db' = db]_vars

\* a value found by the walk down, at a height below the one asked for
C14_Witness ==
    /\ res.op = "read"
    /\ res.out.tag = "Some"
    /\ SubspaceKey(res.height, res.addr, res.column) \notin DOMAIN db
    /\ Pointer(db).some
    /\ EngineGet(db, s_chain_id).some

\* C15: write_chain_id(id) leaves every key but `chain_id` as it was, the
\* pointer and the keys of the heights among them; when it returns Ok
\* `chain_id` holds id, when it fails the store is as it was.  The store
\* after a call that returns Ok is thus the same whether or not the store
\* before held id already: a retry after a success or after a failure
\* yields what one successful call yields.
C15_WriteChainIdRetry ==
    res.op = "write_chain_id" =>
        /\ \A k \in (DOMAIN db \cup DOMAIN res.before) \ {s_chain_id} :
              /\ k \in DOMAIN db
              /\ k \in DOMAIN res.before
              /\ db[k] = res.before[k]
        /\ res.out = Ok =>
              /\ EngineGet(db, s_chain_id) = Some(EncodeValue(res.id))
              /\ EngineGet(res.before, s_chain_id) = Some(EncodeValue(res.id))
                    => db = res.before
        /\ res.out # Ok => db = res.before

\* the call that returns Ok is a retry on a store with a block and its pointer
C15_Witness ==
    /\ res.op = "write_chain_id"
    /\ res.out = Ok
    /\ EngineGet(res.before, s_chain_id) = Some(EncodeValue(res.id))
    /\ Pointer(db).some
    /\ BlockKeys(PointerHeight(db)) \subseteq DOMAIN db

\* C16 as claimed: the last batch at h acknowledged (its write_block returned
\* Ok) after a batch at h whose pointer write did not happen, read_last_block
\* returning h returns exactly the subspaces of that last write_block, no
\* entry left by the unacknowledged batch among them.
C16_NoLeftoverOfUnacknowledged ==
    (/\ IsRecovery
     /\ res.out.tag = "Some"
     /\ last[res.out.height].acked
     /\ last[res.out.height].stale # {}) =>
        /\ Flatten(res.out.subspaces) = Flatten(last[res.out.height].subspaces)
        /\ last[res.out.height].stale \cap Entries(res.out.subspaces) = {}

\* C17 as claimed: a value read returns was written for the pair by a batch
\* at some height at or below the `height` pointer, never only by batches at
\* heights above it.
C17_UnpointedDataInvisible ==
    (res.op = "read" /\ res.failAt = NoHeight /\ res.out.tag = "Some") =>
        \E x \in 0..PointerHeight(db) :
            /\ <<res.addr, res.column>> \in DOMAIN written[x]
            /\ written[x][<<res.addr, res.column>>] = res.out.v

AllPairs == {addr_a, addr_b} \X {col_c, col_d_e}

\* the store `after` differs from `before` by a write_block at h of
\* subspaces at most: in the pointer, the three block keys of h and the
\* keys of h for the entries of subspaces
WriteBlockFrame(before, after, h, subspaces) ==
    LET changed == {k \in DOMAIN after : k \notin DOMAIN before \/ before[k] # after[k]}
    IN  /\ DOMAIN before \subseteq DOMAIN after
        /\ changed \subseteq {s_height} \cup BlockKeys(h)
                        \cup {SubspaceKey(h, e[1], e[2]) : e \in Entries(subspaces)}
        /\ \A k \in changed \ {s_height} : HeightPrefixed(k, h)

\* read below h answers the same on `before` and on `after`
ReadsBelowUnchanged(before, after, h) ==
    \A h2 \in 0..(h - 1), e \in AllPairs :
        ReadFrom(after, h2, e[1], e[2], NoHeight) = ReadFrom(before, h2, e[1], e[2], NoHeight)

\* C19: write_block(tree, hash, h, subspaces), between its two writes and
\* when it has returned, has changed no key but keys under h and the
\* pointer: chain_id and the keys of the other heights are as they were,
\* under h only the root, the store, the hash and the columns of subspaces
\* are written, and read(h', a, c) for h' < h answers as before the call.
C19_WriteBlockFrame ==
    /\ pc = "committed" => WriteBlockFrame(prev.store, db, wh, last[wh].subspaces)
    /\ (res.op = "write_block" /\ res.failed # "batch") =>
          WriteBlockFrame(res.before, db, res.height, last[res.height].subspaces)
    /\ (res.op = "write_block" /\ res.failed = "none") =>
          ReadsBelowUnchanged(res.before, db, res.height)

\* a write at a height above one that holds a column, a column of the
\* height itself left unwritten
C19_Witness ==
    /\ res.op = "write_block"
    /\ res.failed = "none"
    /\ res.height > 0
    /\ EngineGet(res.before, s_chain_id).some
    /\ \E e \in AllPairs :
          /\ e \notin Entries(last[res.height].subspaces)
          /\ ReadFrom(db, res.height, e[1], e[2], NoHeight).tag = "Some"

\* the key read looks up at height x for the call that returned
ProbedKey(x) == SubspaceKey(x, res.addr, res.column)

\* C22: read(height, a, c) returns after at most height + 1 lookups: it
\* looks up height, height - 1, ... one below the other, goes on only past
\* a height at which the key is absent, and ends at the first height at
\* which the key is present (or the lookup fails) or at height 0, which has
\* no predecessor.
C22_ReadTerminates ==
    res.op = "read" =>
        LET p == res.out.probes
            n == Len(p)
        IN  /\ n >= 1
            /\ n <= res.height + 1
            /\ \A i \in 1..n : p[i] = res.height - (i - 1)
            /\ \A i \in 1..(n - 1) : p[i] # res.failAt /\ ProbedKey(p[i]) \notin DOMAIN db
            /\ \/ p[n] = res.failAt
               \/ ProbedKey(p[n]) \in DOMAIN db
               \/ p[n] = 0
            /\ res.out.tag = "None" => (n = res.height + 1 /\ ProbedKey(0) \notin DOMAIN db)

\* the walk from the greatest height down to 0 on a store that holds blocks
C22_Witness ==
    /\ res.op = "read"
    /\ res.height = MaxHeight
    /\ res.out.tag = "None"
    /\ Len(res.out.probes) = MaxHeight + 1
    /\ \E h \in Heights : BlockKeys(h) \subseteq DOMAIN db

\* C23: a read in which the engine fails a lookup it makes, at the height
\* asked for or at a height below reached by the walk down, returns the
\* engine's error: it does not go on to a lower height and does not return
\* None.  A lookup the walk does not reach, a value being found above it,
\* does not fail the read.
C23_ReadPropagatesEngineError ==
    (res.op = "read" /\ res.failAt # NoHeight) =>
        LET reached == \A x \in (res.failAt + 1)..res.height : ProbedKey(x) \notin DOMAIN db
        IN  /\ reached =>
                  /\ res.out.tag = "Err"
                  /\ res.out.kind = "RocksDBError"
                  /\ res.out.probes[Len(res.out.probes)] = res.failAt
            /\ ~reached => res.out.tag = "Some"

\* the lookup fails below the height asked for, above a height with the key
C23_Witness ==
    /\ res.op = "read"
    /\ res.failAt # NoHeight
    /\ res.failAt < res.height
    /\ res.out.tag = "Err"
    /\ \E x \in 0..(res.failAt - 1) : ProbedKey(x) \in DOMAIN db

(***************************************************************************)
(* Properties of read_last_block over any store (SpecScan)                 *)
(***************************************************************************)
\* key k lies under height h: its first segment reads as h, more follow
UnderHeight(k, h) ==
    /\ Len(Split(k)) >= 2
    /\ ParseU64(Split(k)[1]).ok
    /\ ParseU64(Split(k)[1]).val = h

\* the shapes of the schema, by the segments after the height
IsRootShape(k) == Len(Split(k)) >= 3 /\ Split(k)[2] = s_tree /\ Split(k)[3] = s_root
IsStoreShape(k) == Len(Split(k)) >= 3 /\ Split(k)[2] = s_tree /\ Split(k)[3] = s_store
IsHashShape(k) == Len(Split(k)) >= 2 /\ Split(k)[2] = s_hash
IsSubspaceShape(k) == Len(Split(k)) >= 3 /\ Split(k)[2] = s_subspace

\* the second segment is none of tree, hash, subspace, or is tree without a
\* third segment root or store, or is subspace without an address segment
UnknownShape(k) ==
    ~(IsRootShape(k) \/ IsStoreShape(k) \/ IsHashShape(k) \/ IsSubspaceShape(k))

BadAddress(k) == IsSubspaceShape(k) /\ ~IsAddressSeg(Split(k)[3])

UnknownKeysAt(h) == {k \in DOMAIN db : UnderHeight(k, h) /\ UnknownShape(k)}
BadAddressKeysAt(h) == {k \in DOMAIN db : UnderHeight(k, h) /\ BadAddress(k)}

Recoverable == EngineGet(db, s_chain_id).some /\ Pointer(db).some

\* the first key of S in the comparator's order
FirstKey(S) == CHOOSE k \in S : \A o \in S \ {k} : key_comparator(k, o) = "Less"

\* C8 as claimed: with an unknown key under the pointer's height in the
\* store, read_last_block fails with UnknownKey carrying that key's path,
\* whatever other keys are present.
C8_UnknownKeyNamed ==
    (IsRecovery /\ Recoverable) =>
        \A k \in UnknownKeysAt(PointerHeight(db)) :
            res.out = ResultErr(unknown_key_error(k))

\* C8 amended: with an unknown key under the pointer's height in the store,
\* read_last_block returns no block; it fails with UnknownKey carrying the
\* path of the first unknown key in the scan's order, unless a subspace key
\* whose address does not parse is scanned before it, and then it fails
\* with the decoding error.
C8_FirstUnknownKeyNamed ==
    (IsRecovery /\ Recoverable /\ UnknownKeysAt(PointerHeight(db)) # {}) =>
        LET unknown == UnknownKeysAt(PointerHeight(db))
            first == FirstKey(unknown \cup BadAddressKeysAt(PointerHeight(db)))
        IN  /\ res.out.tag = "Err"
            /\ first \in unknown => res.out = [tag |-> "Err", kind |-> "UnknownKey", key |-> first]
            /\ first \notin unknown => res.out.kind = "Temporary:address"

\* two unknown keys under the pointer's height, the error names the first
C8_Witness ==
    /\ IsRecovery
    /\ Recoverable
    /\ Cardinality(UnknownKeysAt(PointerHeight(db))) = 2
    /\ BlockKeys(PointerHeight(db)) \subseteq DOMAIN db
    /\ Cat(HeightToKeySeg(PointerHeight(db)), r_zzz) \in DOMAIN db
    /\ res.out.kind = "UnknownKey"
    /\ res.out.key = Cat(HeightToKeySeg(PointerHeight(db)), r_aaa)

\* C9: chain id and pointer present and the scan of the pointer's height
\* meeting no key that stops it, read_last_block fails with the
\* essential-data error when no key of root shape, of store shape or of hash
\* shape lies under that height; a block it returns has all three.
C9_EssentialDataMissing ==
    (/\ IsRecovery
     /\ Recoverable
     /\ UnknownKeysAt(PointerHeight(db)) = {}
     /\ BadAddressKeysAt(PointerHeight(db)) = {}) =>
        LET at == {k \in DOMAIN db : UnderHeight(k, PointerHeight(db))}
            missing == \/ ~\E k \in at : IsRootShape(k)
                       \/ ~\E k \in at : IsStoreShape(k)
                       \/ ~\E k \in at : IsHashShape(k)
        IN  /\ missing => res.out = [tag |-> "Err", kind |-> "Temporary:essential", key |-> <<>>]
            /\ ~missing => res.out.tag = "Some"

\* the hash is there, the root is not
C9_Witness ==
    /\ IsRecovery
    /\ Recoverable
    /\ HashKey(PointerHeight(db)) \in DOMAIN db
    /\ StoreKey(PointerHeight(db)) \in DOMAIN db
    /\ RootKey(PointerHeight(db)) \notin DOMAIN db
    /\ res.out.kind = "Temporary:essential"

\* C10: read_last_block returns Ok(None) when its lookup of chain_id finds
\* no key, and when chain_id is there and its lookup of height finds no
\* key, whatever keys the heights hold.
C10_AbsentIsEmpty ==
    res.op = "read_last_block" =>
        /\ (res.fail # "chain_id" /\ ~EngineGet(db, s_chain_id).some) => res.out = ResultNone
        /\ (res.fail = "none" /\ ~Pointer(db).some) => res.out = ResultNone

\* chain_id is there, the pointer is not, keys of a height are
C10_Witness ==
    /\ IsRecovery
    /\ EngineGet(db, s_chain_id).some
    /\ ~Pointer(db).some
    /\ \E h \in ScanHeights : BlockKeys(h) \subseteq DOMAIN db
    /\ \E k \in DOMAIN db : UnknownShape(k)
    /\ res.out = ResultNone

\* C18: chain id and pointer present, the range read_last_block scans, from
\* `H/` up to `(H+1)/` excluded in key_comparator's order, holds exactly the
\* keys of the store whose first segment reads as the pointer's height H
\* and is followed by more: the keys write_block put at H are in it, the
\* keys of the other heights, `chain_id` and `height` are not.
C18_ScanVisitsTheHeight ==
    (IsRecovery /\ Recoverable) =>
        LET H == PointerHeight(db)
            range == ScanRange(db, H)
            visited == {range[i] : i \in 1..Len(range)}
        IN  /\ visited = {k \in DOMAIN db : UnderHeight(k, H)}
            /\ BlockKeys(H) \cap DOMAIN db \subseteq visited
            /\ s_chain_id \notin visited
            /\ s_height \notin visited
            /\ \A h \in ScanHeights \ {H} : BlockKeys(h) \cap visited = {}

\* the pointer at 9, the block of 9 recovered, keys under 10 in the store
C18_Witness ==
    /\ IsRecovery
    /\ Recoverable
    /\ PointerHeight(db) = 9
    /\ res.out.tag = "Some"
    /\ \E k \in DOMAIN db : UnderHeight(k, 10) /\ UnknownShape(k)
    /\ Len(ScanRange(db, 9)) >= 4

\* C20 as claimed: the hash, the root and the store read_last_block returns
\* are the values stored under exactly H/hash, H/tree/root and H/tree/store,
\* whatever keys with more segments after these lie under H.
C20_ExactKeysOnly ==
    (IsRecovery /\ Recoverable /\ res.out.tag = "Some") =>
        LET H == PointerHeight(db)
        IN  /\ BlockKeys(H) \subseteq DOMAIN db
            /\ res.out.hash = DecodeValue(db[HashKey(H)])
            /\ res.out.tree.root = DecodeValue(db[RootKey(H)])
            /\ res.out.tree.store = DecodeValue(db[StoreKey(H)])

\* C24: chain id and pointer present and a subspace key whose address
\* segment does not parse lying under the pointer's height, read_last_block
\* returns no block: the scan, when no unknown key stops it before, stops
\* at that key with the decoding error, and it never passes over the key.
C24_BadAddressIsDecodingError ==
    (IsRecovery /\ Recoverable /\ BadAddressKeysAt(PointerHeight(db)) # {}) =>
        LET bad == BadAddressKeysAt(PointerHeight(db))
            first == FirstKey(bad \cup UnknownKeysAt(PointerHeight(db)))
        IN  /\ res.out.tag = "Err"
            /\ res.out.kind \in {"Temporary:address", "UnknownKey"}
            /\ first \in bad => res.out = [tag |-> "Err", kind |-> "Temporary:address",
                                            key |-> <<>>]
            /\ res.out.kind = "UnknownKey" => key_comparator(res.out.key, first) # "Greater"

\* the block's three keys and a subspace key with a good address are there
C24_Witness ==
    /\ IsRecovery
    /\ Recoverable
    /\ BlockKeys(PointerHeight(db)) \subseteq DOMAIN db
    /\ SubspaceKey(PointerHeight(db), addr_a, col_c) \in DOMAIN db
    /\ BadAddressKeysAt(PointerHeight(db)) # {}
    /\ UnknownKeysAt(PointerHeight(db)) = {}
    /\ res.out.kind = "Temporary:address"

(***************************************************************************)
(* Properties of the columns' round trip (SpecCol)                         *)
(***************************************************************************)
\* C21: the pointer at H, read_last_block returns, for every address a and
\* column c written by write_block at H, c with one or several segments
\* between `/`, a subspace of a that maps c to the value last written for
\* (a, c); it returns as many entries as pairs were written, no two pairs
\* in one entry and no column under another name.
C21_ColumnRoundTrip ==
    (IsRecovery /\ Recoverable) =>
        LET H == PointerHeight(db)
            subspaces == res.out.subspaces
        IN  /\ res.out.tag = "Some"
            /\ \A e \in DOMAIN written[H] :
                  /\ e[1] \in DOMAIN subspaces
                  /\ e[2] \in DOMAIN subspaces[e[1]]
                  /\ subspaces[e[1]][e[2]] = written[H][e]
            /\ Cardinality(Entries(subspaces)) = Cardinality(DOMAIN written[H])
            /\ \A a \in DOMAIN subspaces :
                  DOMAIN subspaces[a] = {e[2] : e \in {x \in DOMAIN written[H] : x[1] = a}}

\* columns d, d/, d/e and d/e/f of one address recovered, each with its value
C21_Witness ==
    /\ IsRecovery
    /\ res.out.tag = "Some"
    /\ addr_a \in DOMAIN res.out.subspaces
    /\ DOMAIN res.out.subspaces[addr_a] = {col_d, col_d_slash, col_d_e, col_d_e_f}
    /\ \A c \in DOMAIN res.out.subspaces[addr_a] :
          res.out.subspaces[addr_a][c] = ColValue(addr_a, c)

(***************************************************************************)
(* validate_channel applied to the calls a transaction can cause           *)
(* (SpecChan).  The state change of the key, the decoding of the tx data   *)
(* and the verification of the proofs are made outside channel.rs, and are *)
(* part of the call.                                                       *)
(***************************************************************************)
MaxCounter == 3

ChanStates == {"Uninitialized", "Init", "TryOpen", "Open", "Closed"}

\* what a read of a channel end gives: nothing, bytes that do not decode, or
\* a channel end in a state
ChanEnds == {"None", "Undecodable"} \cup ChanStates

StateChanges == {"Created", "Updated", "Deleted", "NotExists", "Error"}

TxDatas ==
    {"ChannelOpenTryData", "ChannelOpenAckData", "ChannelOpenConfirmData",
     "ChannelCloseInitData", "ChannelCloseConfirmData", "garbage"}

\* the counterparty's channel end that the proofs prove, or none
Provens ==
    {Expected(s, i) : s \in {"Init", "TryOpen", "Open", "Closed"}, i \in {"none", "some"}}
        \cup {NoVerify}

Envs == {"ok", "proofs_error", "no_counterparty_connection"}

CounterRead(ok, val) == [ok |-> ok, val |-> val]

\* calls on a channel-end key that pass the checks of the port and of the
\* channel end
ChanEndCalls ==
    [key : {"channel_end"}, counter_pre : {CounterRead(TRUE, 0)}, counter : {0},
     port_authenticated : {TRUE}, channel : ChanStates,
     valid_basic : {TRUE}, valid_version : {TRUE},
     change : StateChanges, prev : ChanEnds, tx : TxDatas,
     proven : Provens, env : Envs]

\* calls that may fail a check of the key, the port or the channel end
ChanCheckCalls ==
    [key : {"channel_end", "other"}, counter_pre : {CounterRead(TRUE, 0)}, counter : {0},
     port_authenticated : BOOLEAN, channel : ChanEnds,
     valid_basic : BOOLEAN, valid_version : BOOLEAN,
     change : {"Created", "Updated"}, prev : {"None", "Init", "Open"},
     tx : {"ChannelCloseInitData", "ChannelOpenTryData"},
     proven : {Expected("Init", "none")}, env : {"ok"}]

\* calls on the key of the channel counter
ChanCounterCalls ==
    [key : {"channel_counter"},
     counter_pre : {CounterRead(FALSE, 0)} \cup {CounterRead(TRUE, n) : n \in 0..MaxCounter},
     counter : 0..MaxCounter,
     port_authenticated : BOOLEAN, channel : {"None", "Init"},
     valid_basic : {TRUE}, valid_version : {TRUE},
     change : {"Updated", "NotExists"}, prev : {"None"},
     tx : {"ChannelOpenTryData", "garbage"},
     proven : {NoVerify}, env : {"ok"}]

ChanCalls == ChanEndCalls \cup ChanCheckCalls \cup ChanCounterCalls

InitChan ==
    /\ db = EmptyStore
    /\ pc = "idle"
    /\ wh = NoHeight
    /\ nWrites = 0
    /\ last = [h \in Heights |-> NoBlock]
    /\ written = [h \in Heights |-> [e \in {} |-> <<>>]]
    /\ prev = NoPrev
    /\ res = NoRes
    /\ edits = 0
    /\ ka = <<>>
    /\ kb = <<>>
    /\ cmpOut = "none"
    /\ chIn \in ChanCalls
    /\ chOut = NoOut

ValidateChannel ==
    /\ chOut = NoOut
    /\ chIn # NoCall
    /\ chOut' = validate_channel(chIn)
    /\ UNCHANGED <<db, pc, wh, nWrites, last, written, prev, res, edits, ka, kb, cmpOut, chIn>>

NextChan == ValidateChannel

SpecChan == InitChan /\ [][NextChan]_vars

(***************************************************************************)
(* Properties of validate_channel (SpecChan)                               *)
(***************************************************************************)
Called == chOut # NoOut

\* the change of the channel end between the pre-state and the post-state
Creation(c, s) == c.change = "Created" /\ c.channel = s
Update(c, from, to) == c.change = "Updated" /\ c.prev = from /\ c.channel = to

AcceptedChange(c) ==
    \/ Creation(c, "Init")
    \/ Creation(c, "TryOpen")
    \/ Update(c, "Init", "Open")
    \/ Update(c, "TryOpen", "Open")
    \/ Update(c, "Open", "Closed")

\* C25: for a channel-end key validate_channel accepts only creation in
\* Init, creation in TryOpen, Init -> Open, TryOpen -> Open and Open ->
\* Closed; every other change of the channel end returns an error.
C25_ChannelChanges ==
    (Called /\ chIn.key = "channel_end") =>
        /\ chOut.tag = "Ok" => AcceptedChange(chIn)
        /\ ~AcceptedChange(chIn) => chOut.tag = "Err"

C25_Witness ==
    /\ Called
    /\ chIn.key = "channel_end"
    /\ Update(chIn, "Closed", "Open")
    /\ chIn.port_authenticated /\ chIn.valid_basic /\ chIn.valid_version
    /\ chIn.tx = "ChannelOpenAckData" /\ chIn.env = "ok"
    /\ chOut = ErrKind("StateChangeError", NoVerify)

\* the checks of the port and of the channel end that precede the match on
\* the state change
PassesChecks(c) ==
    /\ c.port_authenticated
    /\ c.channel \in ChanStates
    /\ c.valid_basic
    /\ c.valid_version

\* accepted with no call of the proof verification
AcceptedUnverified == chOut = OkBool(TRUE, NoVerify)

\* accepted exactly when the tx data decodes as `data` and its proofs prove the
\* counterparty's channel end `expected`; an error otherwise, and no
\* verification against any other channel end
AcceptedWhenVerified(c, data, expected) ==
    /\ chOut.verified \in {NoVerify, expected}
    /\ IF c.tx = data /\ c.env = "ok" /\ c.proven = expected
       THEN chOut = OkBool(TRUE, expected)
       ELSE chOut.tag = "Err"

\* C26: creation in Init, and Open -> Closed with close-init tx data, are
\* accepted without proof verification; creation in TryOpen is verified
\* against a counterparty end in Init without this side's channel id, Init ->
\* Open against TryOpen, TryOpen -> Open against Open, any other Open ->
\* Closed against Closed; the result for a channel-end key is Ok(true) exactly
\* when the required verification succeeds, an error otherwise, never
\* Ok(false).
C26_ProofRequirement ==
    (Called /\ chIn.key = "channel_end") =>
        /\ chOut.tag \in {"Ok", "Err"}
        /\ chOut.tag = "Ok" => chOut.v = TRUE
        /\ PassesChecks(chIn) =>
            /\ Creation(chIn, "Init") => AcceptedUnverified
            /\ (Update(chIn, "Open", "Closed") /\ chIn.tx = "ChannelCloseInitData")
                   => AcceptedUnverified
            /\ Creation(chIn, "TryOpen") =>
                   AcceptedWhenVerified(chIn, "ChannelOpenTryData", Expected("Init", "none"))
            /\ Update(chIn, "Init", "Open") =>
                   AcceptedWhenVerified(chIn, "ChannelOpenAckData", Expected("TryOpen", "some"))
            /\ Update(chIn, "TryOpen", "Open") =>
                   AcceptedWhenVerified(chIn, "ChannelOpenConfirmData", Expected("Open", "some"))
            /\ (Update(chIn, "Open", "Closed") /\ chIn.tx # "ChannelCloseInitData") =>
                   AcceptedWhenVerified(chIn, "ChannelCloseConfirmData", Expected("Closed", "some"))

C26_Witness ==
    /\ Called
    /\ chIn.key = "channel_end"
    /\ PassesChecks(chIn)
    /\ Creation(chIn, "TryOpen")
    /\ chIn.tx = "ChannelOpenTryData"
    /\ chIn.env = "ok"
    /\ chIn.proven = Expected("Init", "none")
    /\ chOut = OkBool(TRUE, Expected("Init", "none"))

\* C27: for the channel-counter key validate_channel returns Ok(true) exactly
\* when the counter after the transaction is strictly greater than the counter
\* before it, and Ok(false) when it is equal or smaller, whatever the port, the
\* channel end and the tx data are.
C27_CounterIncreases ==
    (Called /\ chIn.key = "channel_counter") =>
        /\ chOut = OkBool(TRUE, NoVerify) <=>
               (chIn.counter_pre.ok /\ chIn.counter > chIn.counter_pre.val)
        /\ (chIn.counter_pre.ok /\ chIn.counter <= chIn.counter_pre.val) =>
               chOut = OkBool(FALSE, NoVerify)

C27_Witness ==
    /\ Called
    /\ chIn.key = "channel_counter"
    /\ chIn.counter_pre = CounterRead(TRUE, 2)
    /\ chIn.counter = 2
    /\ ~chIn.port_authenticated
    /\ chIn.channel = "None"
    /\ chIn.tx = "garbage"
    /\ chOut = OkBool(FALSE, NoVerify)

====
